---- MODULE Spec2Model ----
(***************************************************************************)
(* Model of src/parser_agent.py: the collection run of AINewsAgent         *)
(* (collect_articles, _iter_feed_entries, _parse_published,                *)
(* _matches_keywords, _build_article on a ThreadPoolExecutor), the         *)
(* extractive summarizer (summarize_text, _split_into_sentences,           *)
(* _tokenize), and main with parse_cli_args.                               *)
(*                                                                         *)
(* Strings are sequences of one-character strings.  An absent value        *)
(* (Python None) of an Optional is <<>>, a present value v is <<v>>.       *)
(* A datetime is a wall-clock time in seconds with the offset of its zone; *)
(* the instant it denotes, in seconds since the epoch, is wall - offset.   *)
(*                                                                         *)
(* What feedparser, requests and the HTML parser give is the environment:  *)
(* each call draws its outcome from a small set.  An entry carries the     *)
(* fields the run reads (title, link, summary, the three date fields); the *)
(* tags and the raw record are copied through by the code and left out.    *)
(* as_completed may yield the futures that are finished in any order.      *)
(***************************************************************************)
EXTENDS Integers, Sequences, FiniteSets, TLC

VARIABLES
    limit,             \* collect_articles(limit=...)
    min_length,        \* collect_articles(min_length=...)
    max_workers,       \* self.max_workers
    summary_sentences, \* collect_articles(summary_sentences=...)
    pc,                \* position of the thread that runs collect_articles
    parsed,            \* per source, what feedparser.parse gave (<<>> = not read yet)
    feed_entries,      \* list(self._iter_feed_entries()), as far as built
    filtered_entries,  \* the entries that pass _matches_keywords
    futures,           \* the futures of pool.submit, in submission order
    yielded,           \* indices of the futures as_completed has yielded
    articles,          \* the accumulator of collect_articles
    admitted,          \* history: the futures whose Article was appended, in order
    fetches,           \* history: the futures whose session.get was called, in order
    result,            \* the list collect_articles returns
    pc2,               \* a second run over the same results: its position,
    yielded2,          \*   the futures its as_completed has yielded,
    articles2,         \*   its accumulator
    admitted2,         \*   the futures whose Article it appended, in order
    result2,           \*   and the list it returns
    spc,               \* position of a caller of summarize_text
    text,              \* summarize_text(text, ...)
    max_sentences,     \* summarize_text(..., max_sentences=...)
    chosen,            \* the sentences summarize_text joins
    summary,           \* the string summarize_text returns
    argv,              \* main(argv): the value given for each flag
    mpc,               \* position of main
    wpc,               \* position of a single call of _build_article
    wentry,            \*   the entry it is called with,
    wresponse,         \*   what session.get gives it,
    warticle           \*   and what it returns

collectorVars == <<limit, min_length, max_workers, summary_sentences, pc, parsed,
                   feed_entries, filtered_entries, futures, yielded, articles,
                   admitted, fetches, result>>
pairVars == <<pc2, yielded2, articles2, admitted2, result2>>
sumVars == <<spc, text, max_sentences, chosen, summary>>
configVars == <<limit, min_length, max_workers, summary_sentences>>
mainVars == <<argv, mpc>>
workerVars == <<wpc, wentry, wresponse, warticle>>
vars == <<collectorVars, pairVars, sumVars, mainVars, workerVars>>

----------------------------------------------------------------------------
(* Bounds of the model *)

NumSources == 2
MaxEntries == 2
MaxLimit == 2
MaxMinLength == 2
MaxWorkers == 2
MaxTextLen == 4
MaxN == 3
LongWords == 6
LongWordLen == 50

----------------------------------------------------------------------------
(* Small helpers on sequences *)

Range(s) == {s[i] : i \in 1..Len(s)}

Min(a, b) == IF a <= b THEN a ELSE b

Max(a, b) == IF a >= b THEN a ELSE b

\* s[:n] of Python for n >= 0
Prefix(s, n) ==
    IF n >= 0 THEN SubSeq(s, 1, Min(n, Len(s))) ELSE SubSeq(s, 1, Max(0, Len(s) + n))

\* the number of positions of s that hold x
Count(s, x) == Cardinality({i \in 1..Len(s) : s[i] = x})

SeqsUpTo(S, n) == UNION {[1..k -> S] : k \in 0..n}

----------------------------------------------------------------------------
(* Strings *)

None == <<>>

Some(v) == <<v>>

UpperLetters == {"A", "I", "X", "Y"}

LowerLetters == {"a", "i", "x", "y"}

Digits == {"0", "1"}

Whitespace == {" ", "\n"}

\* str.lower on one character
LowerChar(c) ==
    CASE c = "A" -> "a" [] c = "I" -> "i" [] c = "X" -> "x" [] c = "Y" -> "y"
      [] OTHER -> c

Lower(s) == [i \in 1..Len(s) |-> LowerChar(s[i])]

RECURSIVE LStrip(_)
LStrip(s) == IF s # <<>> /\ Head(s) \in Whitespace THEN LStrip(Tail(s)) ELSE s

RECURSIVE RStrip(_)
RStrip(s) ==
    IF s # <<>> /\ s[Len(s)] \in Whitespace
    THEN RStrip(SubSeq(s, 1, Len(s) - 1))
    ELSE s

\* str.strip
Strip(s) == RStrip(LStrip(s))

\* needle in haystack
Contains(haystack, needle) ==
    \E i \in 0..(Len(haystack) - Len(needle)) :
        SubSeq(haystack, i + 1, i + Len(needle)) = needle

\* sep.join(parts)
RECURSIVE Join(_, _)
Join(parts, sep) ==
    IF parts = <<>> THEN <<>>
    ELSE IF Len(parts) = 1 THEN parts[1]
    ELSE parts[1] \o sep \o Join(Tail(parts), sep)

\* re.sub(r"\s+", " ", s): every run of whitespace becomes one space
CollapseSpace(s) ==
    LET kept == SelectSeq([i \in 1..Len(s) |-> i],
                          LAMBDA i : s[i] \notin Whitespace
                                     \/ i = 1 \/ s[i - 1] \notin Whitespace)
    IN  [k \in 1..Len(kept) |-> IF s[kept[k]] \in Whitespace THEN " " ELSE s[kept[k]]]

\* str.split(): the maximal runs of non-whitespace characters
RECURSIVE WordLen(_)
WordLen(u) ==
    IF u = <<>> \/ Head(u) \in Whitespace THEN 0 ELSE 1 + WordLen(Tail(u))

RECURSIVE Words(_)
Words(s) ==
    LET t == LStrip(s)
    IN  IF t = <<>> THEN <<>>
        ELSE <<SubSeq(t, 1, WordLen(t))>>
             \o Words(SubSeq(t, WordLen(t) + 1, Len(t)))

----------------------------------------------------------------------------
(* The summarizer: summarize_text, _split_into_sentences, _tokenize *)

\* the members of STOP_WORDS that can be written with the model's letters
STOP_WORDS == {<<"a">>, <<"i">>}

SentenceEnd == {".", "!", "?"}

TokenChars == LowerLetters \cup UpperLetters \cup Digits \cup {"'"}

\* the positions of s (whitespace already collapsed) that match
\* (?<=[.!?])\s+(?=[A-Z0-9]), lowest first
Boundaries(s) ==
    {i \in 2..(Len(s) - 1) :
        /\ s[i] = " "
        /\ s[i - 1] \in SentenceEnd
        /\ s[i + 1] \in UpperLetters \cup Digits}

\* pattern.split(s)
RECURSIVE PatternSplit(_)
PatternSplit(s) ==
    IF Boundaries(s) = {} THEN <<s>>
    ELSE LET i == CHOOSE b \in Boundaries(s) : \A c \in Boundaries(s) : b <= c
         IN  <<SubSeq(s, 1, i - 1)>> \o PatternSplit(SubSeq(s, i + 1, Len(s)))

\* [x.strip() for x in parts if x.strip()]
RECURSIVE StripNonEmpty(_)
StripNonEmpty(parts) ==
    IF parts = <<>> THEN <<>>
    ELSE IF Strip(Head(parts)) = <<>> THEN StripNonEmpty(Tail(parts))
    ELSE <<Strip(Head(parts))>> \o StripNonEmpty(Tail(parts))

split_into_sentences(txt) ==
    LET cleaned == CollapseSpace(Strip(txt))
    IN  IF cleaned = <<>> THEN <<>> ELSE StripNonEmpty(PatternSplit(cleaned))

RECURSIVE TokenLen(_)
TokenLen(u) ==
    IF u = <<>> \/ Head(u) \notin TokenChars THEN 0 ELSE 1 + TokenLen(Tail(u))

\* re.findall(r"[a-zA-Z0-9']+", s): the maximal runs of token characters
RECURSIVE FindTokens(_)
FindTokens(s) ==
    IF s = <<>> THEN <<>>
    ELSE IF Head(s) \notin TokenChars THEN FindTokens(Tail(s))
    ELSE <<SubSeq(s, 1, TokenLen(s))>>
         \o FindTokens(SubSeq(s, TokenLen(s) + 1, Len(s)))

tokenize(sentence) == FindTokens(Lower(sentence))

\* Counted without the test against STOP_WORDS
Counted_StopWordsToo(tokens) == tokens

\* the tokens that word_freq counts
Counted(tokens) == SelectSeq(tokens, LAMBDA t : t \notin STOP_WORDS)

RECURSIVE Flatten(_)
Flatten(seqs) == IF seqs = <<>> THEN <<>> ELSE Head(seqs) \o Flatten(Tail(seqs))

\* word_freq after the first loop: raw counts of the non-stop tokens
WordFreq(sentences) ==
    LET all == Flatten([i \in 1..Len(sentences) |-> Counted(tokenize(sentences[i]))])
    IN  [w \in Range(all) |-> Count(all, w)]

RECURSIVE SumSeq(_)
SumSeq(ns) == IF ns = <<>> THEN 0 ELSE Head(ns) + SumSeq(Tail(ns))

\* sum(word_freq.get(token, 0.0) for token in tokens), times max_freq: the
\* weights are count / max_freq for one max_freq, so scores compare as the
\* sums of the raw counts do
Score(sentence, freq) ==
    LET tokens == tokenize(sentence)
    IN  SumSeq([i \in 1..Len(tokens) |->
                  IF tokens[i] \in DOMAIN freq THEN freq[tokens[i]] ELSE 0])

\* The lists that are sorted hold pairs <<key, item>>.
\* x put into the sorted list s behind every pair whose key is not below
\* its own: one step of a stable sort with reverse=True
RECURSIVE InsertDesc(_, _)
InsertDesc(s, x) ==
    IF s = <<>> THEN <<x>>
    ELSE IF x[1] > Head(s)[1] THEN <<x>> \o s
    ELSE <<Head(s)>> \o InsertDesc(Tail(s), x)

\* sorted(s, key=lambda item: item[0], reverse=True)
RECURSIVE SortedDesc(_)
SortedDesc(s) ==
    IF s = <<>> THEN <<>>
    ELSE InsertDesc(SortedDesc(SubSeq(s, 1, Len(s) - 1)), s[Len(s)])

\* sorted(s, key=lambda item: item[0]): ascending and stable
SortedAsc(s) ==
    LET neg == [i \in 1..Len(s) |-> <<0 - s[i][1], s[i][2]>>]
        out == SortedDesc(neg)
    IN  [i \in 1..Len(out) |-> <<0 - out[i][1], out[i][2]>>]

Items(pairs) == [i \in 1..Len(pairs) |-> pairs[i][2]]

\* list.index
IndexOf(s, x) == CHOOSE i \in 1..Len(s) : s[i] = x /\ \A j \in 1..(i - 1) : s[j] # x

\* SentenceScores with the scores negated: the lowest score ranks first
SentenceScores_LowestFirst(sentences, freq) ==
    LET scored == SelectSeq(sentences, LAMBDA s : tokenize(s) # <<>>)
    IN  [i \in 1..Len(scored) |-> <<0 - Score(scored[i], freq), scored[i]>>]

\* the (score, sentence) pairs of the sentences that have tokens
SentenceScores(sentences, freq) ==
    LET scored == SelectSeq(sentences, LAMBDA s : tokenize(s) # <<>>)
    IN  [i \in 1..Len(scored) |-> <<Score(scored[i], freq), scored[i]>>]

\* SummarySentences with the short cut taken for fewer than n sentences only
SummarySentences_StrictShortCut(txt, n) ==
    LET sentences == split_into_sentences(txt)
        word_freq == WordFreq(sentences)
        sentence_scores == SentenceScores(sentences, word_freq)
        top_sentences == Prefix(Items(SortedDesc(sentence_scores)), n)
        by_index == [i \in 1..Len(top_sentences) |->
                        <<IndexOf(sentences, top_sentences[i]), top_sentences[i]>>]
    IN  IF Len(sentences) < n THEN sentences
        ELSE IF DOMAIN word_freq = {} THEN Prefix(sentences, n)
        ELSE Items(SortedAsc(by_index))

\* the sentences whose join summarize_text returns
SummarySentences(txt, n) ==
    LET sentences == split_into_sentences(txt)
        word_freq == WordFreq(sentences)
        sentence_scores == SentenceScores(sentences, word_freq)
        top_sentences == Prefix(Items(SortedDesc(sentence_scores)), n)
        by_index == [i \in 1..Len(top_sentences) |->
                        <<IndexOf(sentences, top_sentences[i]), top_sentences[i]>>]
    IN  IF Len(sentences) <= n THEN sentences
        ELSE IF DOMAIN word_freq = {} THEN Prefix(sentences, n)
        ELSE Items(SortedAsc(by_index))

summarize_text(txt, n) == Join(SummarySentences(txt, n), <<" ">>)

----------------------------------------------------------------------------
(* Feed entries *)

\* A date string of a feed: valid says whether date_parser.parse accepts it,
\* wall is the wall-clock time it reads, offset its zone (None: no zone).
DateStr(valid, wall, offset) == [valid |-> valid, wall |-> wall, offset |-> offset]

UTC == 0

\* the instant of an aware datetime, in seconds since the epoch
Instant(d) == d.wall - d.offset

\* what feedparser can hand over as one entry
RawEntry(title, link, snippet, published, updated, created) ==
    [title |-> title, link |-> link, summary |-> snippet,
     published |-> published, updated |-> updated, created |-> created]

EntryPool ==
    { RawEntry(<<"A", "I">>, "u1", <<"x", "a">>,
               Some(DateStr(TRUE, 1, Some(UTC))), Some(DateStr(TRUE, 2, Some(UTC))), None),
      RawEntry(<<"a", "i">>, "u1", <<>>, None, None, None),
      RawEntry(<<"x", "a", "i", "x">>, "u2", <<" ", "x">>,
               Some(DateStr(FALSE, 0, None)), Some(DateStr(TRUE, 0 - 1, None)), None),
      RawEntry(<<"x", "y">>, "u3", <<"A", "i">>,
               None, None, Some(DateStr(TRUE, 1, Some(1)))),
      RawEntry(<<"A", "i">>, "", <<"x">>,
               Some(DateStr(TRUE, 1, Some(UTC))), None, None),
      RawEntry(<<"x", "a">>, "u2", <<"i">>,
               Some(DateStr(TRUE, 2, None)), None, None) }

\* what feedparser.parse(source) can do: raise, or give a feed whose bozo
\* flag tells whether the document was malformed, with the entries it got
FeedResults(room) ==
    {[raised |-> TRUE, bozo |-> FALSE, entries |-> <<>>]}
    \cup {[raised |-> FALSE, bozo |-> b, entries |-> es] :
            b \in BOOLEAN, es \in SeqsUpTo(EntryPool, room)}

\* _parse_published, from the key at position k of ("published", "updated", "created")
RECURSIVE ParseFrom(_, _)
ParseFrom(values, k) ==
    IF k > Len(values) THEN None
    ELSE IF values[k] = None THEN ParseFrom(values, k + 1)
    ELSE IF ~values[k][1].valid THEN ParseFrom(values, k + 1)
    ELSE LET v == values[k][1]
         IN  Some([wall |-> v.wall,
                   offset |-> IF v.offset = None THEN UTC ELSE v.offset[1]])

\* parse_published with the keys tried from the last to the first
parse_published_LastFirst(entry) ==
    ParseFrom(<<entry.created, entry.updated, entry.published>>, 1)

parse_published(entry) ==
    ParseFrom(<<entry.published, entry.updated, entry.created>>, 1)

\* the entry_dict of _iter_feed_entries
EntryDict(entry, source) ==
    [title |-> entry.title, link |-> entry.link, summary |-> entry.summary,
     published |-> parse_published(entry), source |-> source]

\* SourceEntries with a malformed feed skipped like one that raised
SourceEntries_SkipMalformed(feed, source) ==
    IF feed.raised \/ feed.bozo THEN <<>>
    ELSE [i \in 1..Len(feed.entries) |-> EntryDict(feed.entries[i], source)]

\* the entries one source adds to list(self._iter_feed_entries())
SourceEntries(feed, source) ==
    IF feed.raised THEN <<>>
    ELSE [i \in 1..Len(feed.entries) |-> EntryDict(feed.entries[i], source)]

\* what the caller passes as keywords
KeywordArgs == {<<"A", "I">>}

\* self.keywords
keywords == {Lower(k) : k \in KeywordArgs}

\* matches_keywords looking at the title alone
matches_keywords_TitleOnly(title, snippet) ==
    \E keyword \in keywords : Contains(Lower(title), keyword)

\* _matches_keywords(title, summary)
matches_keywords(title, snippet) ==
    LET haystack == Lower(Join(<<title, snippet>>, <<" ">>))
    IN  \E keyword \in keywords : Contains(haystack, keyword)

\* FilterEntries with every entry kept
FilterEntries_KeepAll(entries) == entries

\* the list comprehension that gives filtered_entries
FilterEntries(entries) ==
    SelectSeq(entries, LAMBDA e : matches_keywords(e.title, e.summary))

----------------------------------------------------------------------------
(* Workers: _build_article and _extract_text *)

MinWords == 5

\* A page is the sequence of the texts of the p and li elements of its
\* content region; _extract_text keeps those with at least MinWords words.
extract_text(page) ==
    Join(SelectSeq(page, LAMBDA t : Strip(t) # <<>> /\ Len(Words(t)) >= MinWords),
         <<"\n", "\n">>)

FiveWords == <<"X", " ", "x", " ", "x", " ", "x", " ", "a">>

TwoWords == <<"X", " ", "x">>

Pages == {<<>>, <<TwoWords>>, <<FiveWords>>}

\* what session.get and raise_for_status can do for one link
Responses ==
    {[ok |-> FALSE, page |-> <<>>]} \cup {[ok |-> TRUE, page |-> p] : p \in Pages}

SummarySentencesArg == 3

ShortenWidth == 280

Placeholder == <<"...">>

\* the words of ws, from the first on, that fit into width with the placeholder
RECURSIVE FitWords(_, _, _)
FitWords(ws, sofar, width) ==
    IF ws = <<>> THEN sofar
    ELSE LET next == IF sofar = <<>> THEN Head(ws) ELSE sofar \o <<" ">> \o Head(ws)
         IN  IF Len(next) + Len(Placeholder) <= width
             THEN FitWords(Tail(ws), next, width)
             ELSE sofar

\* textwrap.shorten(s, width=width, placeholder=Placeholder)
Shorten(s, width) ==
    LET collapsed == Join(Words(s), <<" ">>)
    IN  IF Len(collapsed) <= width THEN collapsed
        ELSE FitWords(Words(s), <<>>, width) \o Placeholder

\* MakeArticle without the two fall-backs
MakeArticle_NoFallback(entry, page, n) ==
    LET full_text == extract_text(page)
    IN  [title |-> entry.title, link |-> entry.link,
         published_at |-> entry.published, source |-> entry.source,
         summary |-> summarize_text(full_text, n),
         full_text |-> Strip(full_text)]

\* the Article _build_article makes of an entry and the page it got
MakeArticle(entry, page, n) ==
    LET extracted == extract_text(page)
        full_text == IF extracted = <<>> THEN entry.summary ELSE extracted
        summ == summarize_text(full_text, n)
    IN  [title |-> entry.title, link |-> entry.link,
         published_at |-> entry.published, source |-> entry.source,
         summary |-> IF summ = <<>> THEN Shorten(full_text, ShortenWidth) ELSE summ,
         full_text |-> Strip(full_text)]

\* build_article with an entry without link treated like any other
build_article_EmptyLinkToo(entry, response, n) ==
    IF ~response.ok THEN None
    ELSE Some(MakeArticle(entry, response.page, n))

\* _build_article(entry): None, or Some(article)
build_article(entry, response, n) ==
    IF entry.link = "" THEN None
    ELSE IF ~response.ok THEN None
    ELSE Some(MakeArticle(entry, response.page, n))

----------------------------------------------------------------------------
(* The collecting thread *)

\* the sort key: a.published_at or datetime.fromtimestamp(0, tz=utc)
SortKey(a) == IF a.published_at = None THEN 0 ELSE Instant(a.published_at[1])

\* SortArticles without the sort
SortArticles_Unsorted(as) == as

\* articles.sort(key=..., reverse=True)
SortArticles(as) ==
    Items(SortedDesc([i \in 1..Len(as) |-> <<SortKey(as[i]), as[i]>>]))

\* lines 292-296: what collect_articles returns for an accumulator
Returned(as, lim) == Prefix(SortArticles(as), lim)

\* Admit with a body of exactly minlen characters turned away
Admit_RejectEqual(as, res, minlen) ==
    IF res = None THEN as
    ELSE IF Len(res[1].full_text) <= minlen THEN as
    ELSE Append(as, res[1])

\* lines 283-288: the accumulator after one yielded future
Admit(as, res, minlen) ==
    IF res = None THEN as
    ELSE IF Len(res[1].full_text) < minlen THEN as
    ELSE Append(as, res[1])

\* Breaks with a failed fetch ending the loop too
Breaks_OnFailedFetch(as, res, minlen, lim) ==
    \/ res = None
    \/ /\ Len(res[1].full_text) >= minlen
       /\ Len(as) + 1 >= lim

\* lines 284-290: whether the loop leaves with break after this future
Breaks(as, res, minlen, lim) ==
    /\ res # None
    /\ Len(res[1].full_text) >= minlen
    /\ Len(as) + 1 >= lim

Future(state, res) == [state |-> state, result |-> res]

Running == {i \in 1..Len(futures) : futures[i].state = "running"}

Queued == {i \in 1..Len(futures) : futures[i].state = "queued"}

Finished == {i \in 1..Len(futures) : futures[i].state = "done"}

\* a pool thread is free to take a queued call
HasFreeWorker_Always == TRUE

HasFreeWorker == Cardinality(Running) < max_workers

\* the futures whose call is between session.get and its return
Fetching == {i \in Running : filtered_entries[i].link # ""}

\* the future of a call of _build_article that went on after a failed fetch
\* by fetching again
DoneFuture_RetryFailedFetch(entry, response, n) ==
    IF entry.link # "" /\ ~response.ok
    THEN Future("queued", None)
    ELSE Future("done", build_article(entry, response, n))

\* the future of a call of _build_article that has returned
DoneFuture(entry, response, n) == Future("done", build_article(entry, response, n))

InitCollector(at, lim, minlen, workers, n) ==
    /\ limit = lim
    /\ min_length = minlen
    /\ max_workers = Max(1, workers)
    /\ summary_sentences = n
    /\ pc = at
    /\ fetches = <<>>
    /\ parsed = <<>>
    /\ feed_entries = <<>>
    /\ filtered_entries = <<>>
    /\ futures = <<>>
    /\ yielded = {}
    /\ articles = <<>>
    /\ admitted = <<>>
    /\ result = <<>>
    /\ pc2 = "collect"
    /\ yielded2 = {}
    /\ articles2 = <<>>
    /\ admitted2 = <<>>
    /\ result2 = <<>>

InitSummarizer(at, txt, n) ==
    /\ spc = at
    /\ text = txt
    /\ max_sentences = n
    /\ chosen = <<>>
    /\ summary = <<>>

\* main is not running
InitMain ==
    /\ argv = <<>>
    /\ mpc = "idle"

\* no single call of _build_article is followed
InitWorker ==
    /\ wpc = "idle"
    /\ wentry = <<>>
    /\ wresponse = <<>>
    /\ warticle = <<>>

Init ==
    /\ \E lim \in 0..MaxLimit, minlen \in 0..MaxMinLength, workers \in 0..MaxWorkers :
          InitCollector("read", lim, minlen, workers, SummarySentencesArg)
    /\ InitSummarizer("idle", <<>>, 1)
    /\ InitMain
    /\ InitWorker

\* _iter_feed_entries: one turn of the loop over self.sources
ReadSource ==
    /\ pc = "read"
    /\ Len(parsed) < NumSources
    /\ \E feed \in FeedResults(MaxEntries - Len(feed_entries)) :
          /\ parsed' = Append(parsed, feed)
          /\ feed_entries' = feed_entries \o SourceEntries(feed, Len(parsed) + 1)
    /\ UNCHANGED <<configVars, pc, filtered_entries, futures, yielded, articles,
                   admitted, fetches, result, pairVars, sumVars, mainVars, workerVars>>

\* lines 272-279: the keyword filter over all entries
Filter ==
    /\ pc = "read"
    /\ Len(parsed) = NumSources
    /\ filtered_entries' = FilterEntries(feed_entries)
    /\ pc' = "submit"
    /\ UNCHANGED <<configVars, parsed, feed_entries, futures, yielded, articles,
                   admitted, fetches, result, pairVars, sumVars, mainVars, workerVars>>

\* line 281: pool.submit for the next filtered entry
Submit ==
    /\ pc = "submit"
    /\ Len(futures) < Len(filtered_entries)
    /\ futures' = Append(futures, Future("queued", None))
    /\ UNCHANGED <<configVars, pc, parsed, feed_entries, filtered_entries, yielded,
                   articles, admitted, fetches, result, pairVars, sumVars, mainVars,
                   workerVars>>

\* line 282: every entry is submitted, as_completed starts
StartCollect ==
    /\ pc = "submit"
    /\ Len(futures) = Len(filtered_entries)
    /\ pc' = "collect"
    /\ UNCHANGED <<configVars, parsed, feed_entries, filtered_entries, futures, yielded,
                   articles, admitted, fetches, result, pairVars, sumVars, mainVars,
                   workerVars>>

\* a free worker thread takes the oldest queued call of _build_article and
\* runs it up to session.get (line 368), if the entry has a link
WorkerStart(i) ==
    /\ i \in Queued
    /\ \A j \in Queued : i <= j
    /\ HasFreeWorker
    /\ futures' = [futures EXCEPT ![i].state = "running"]
    /\ fetches' = IF filtered_entries[i].link = "" THEN fetches ELSE Append(fetches, i)
    /\ UNCHANGED <<configVars, pc, parsed, feed_entries, filtered_entries, yielded,
                   articles, admitted, result, pairVars, sumVars, mainVars, workerVars>>

\* _build_article returns in a worker thread
WorkerFinish(i) ==
    /\ i \in Running
    /\ \E response \in Responses :
          futures' = [futures EXCEPT
                        ![i] = DoneFuture(filtered_entries[i], response, summary_sentences)]
    /\ UNCHANGED <<configVars, pc, parsed, feed_entries, filtered_entries, yielded,
                   articles, admitted, fetches, result, pairVars, sumVars, mainVars,
                   workerVars>>

\* lines 282-290: as_completed yields a finished future, one turn of the loop
Collect(i) ==
    /\ pc = "collect"
    /\ i \in Finished \ yielded
    /\ yielded' = yielded \cup {i}
    /\ articles' = Admit(articles, futures[i].result, min_length)
    /\ admitted' = IF articles' = articles THEN admitted ELSE Append(admitted, i)
    /\ pc' = IF Breaks(articles, futures[i].result, min_length, limit)
             THEN "shutdown" ELSE "collect"
    /\ UNCHANGED <<configVars, parsed, feed_entries, filtered_entries, futures, fetches,
                   result, pairVars, sumVars, mainVars, workerVars>>

\* as_completed has yielded every future: the loop ends without break
LoopEnd ==
    /\ pc = "collect"
    /\ yielded = 1..Len(futures)
    /\ pc' = "shutdown"
    /\ UNCHANGED <<configVars, parsed, feed_entries, filtered_entries, futures, yielded,
                   articles, admitted, fetches, result, pairVars, sumVars, mainVars,
                   workerVars>>

\* the with block left without waiting for the calls still queued or running
AllWorkersDone_NoWait == TRUE

\* the exit of the with block, shutdown(wait=True): every submitted call
\* has returned
AllWorkersDone == Finished = 1..Len(futures)

\* the with block ends (shutdown(wait=True)), then lines 292-296
Return ==
    /\ pc = "shutdown"
    /\ AllWorkersDone
    /\ articles' = SortArticles(articles)
    /\ result' = Returned(articles, limit)
    /\ pc' = "done"
    /\ UNCHANGED <<configVars, parsed, feed_entries, filtered_entries, futures, yielded,
                   admitted, fetches, pairVars, sumVars, mainVars, workerVars>>

Next ==
    \/ ReadSource
    \/ Filter
    \/ Submit
    \/ StartCollect
    \/ \E i \in 1..Len(futures) : WorkerStart(i)
    \/ \E i \in 1..Len(futures) : WorkerFinish(i)
    \/ \E i \in 1..Len(futures) : Collect(i)
    \/ LoopEnd
    \/ Return

Spec == Init /\ [][Next]_vars

\* The thread that runs collect_articles goes on whenever it can, a pool
\* thread that is free takes the next queued call, and every call that has
\* started returns: its fetch ends in success, failure or timeout.
Fairness ==
    /\ WF_vars(ReadSource \/ Filter \/ Submit \/ StartCollect \/ LoopEnd \/ Return
                \/ \E i \in 1..Len(futures) : Collect(i))
    /\ WF_vars(\E i \in 1..Len(futures) : WorkerStart(i))
    /\ WF_vars(\E i \in 1..Len(futures) : WorkerFinish(i))

\* the runs whose termination is checked: every limit and worker count,
\* no minimum length
InitLive ==
    /\ \E lim \in 0..MaxLimit, workers \in 1..MaxWorkers :
          InitCollector("read", lim, 0, workers, SummarySentencesArg)
    /\ InitSummarizer("idle", <<>>, 1)
    /\ InitMain
    /\ InitWorker

SpecLive == InitLive /\ [][Next]_vars /\ Fairness

\* The Feed Reader and the keyword filter alone: lines 268-277
InitFeed ==
    /\ InitCollector("read", MaxLimit, 0, 1, SummarySentencesArg)
    /\ InitSummarizer("idle", <<>>, 1)
    /\ InitMain
    /\ InitWorker

NextFeed ==
    \/ ReadSource
    \/ Filter

SpecFeed == InitFeed /\ [][NextFeed]_vars

----------------------------------------------------------------------------
(* main: the command line, then one collection run *)

\* the value given for a numeric flag: text that int() accepts, with its
\* value, or text that it does not
Flag(numeric, value) == [numeric |-> numeric, value |-> value]

LimitArgs == {Flag(FALSE, 0), Flag(TRUE, 0 - 1), Flag(TRUE, 1)}

MinLengthArgs == {Flag(TRUE, 0 - 1), Flag(TRUE, 1)}

SummarySentencesArgs == {Flag(TRUE, 0), Flag(TRUE, SummarySentencesArg)}

MaxWorkersArgs == {Flag(TRUE, 0), Flag(TRUE, MaxWorkers)}

OutputArgs == {"markdown", "xml"}

OutputChoices == {"json", "markdown"}

ArgvSet ==
    [limit : LimitArgs, min_length : MinLengthArgs,
     summary_sentences : SummarySentencesArgs, max_workers : MaxWorkersArgs,
     output : OutputArgs]

\* parse_cli_args(argv): None when argparse exits with an error, or
\* Some(namespace)
parse_cli_args(a) ==
    IF \/ ~a.limit.numeric
       \/ ~a.min_length.numeric
       \/ ~a.summary_sentences.numeric
       \/ ~a.max_workers.numeric
       \/ a.output \notin OutputChoices
    THEN None
    ELSE Some([limit |-> a.limit.value, min_length |-> a.min_length.value,
               summary_sentences |-> a.summary_sentences.value,
               max_workers |-> a.max_workers.value, output |-> a.output])

InitArgs ==
    /\ InitCollector("idle", 0, 0, 1, SummarySentencesArg)
    /\ InitSummarizer("idle", <<>>, 1)
    /\ argv \in ArgvSet
    /\ mpc = "start"
    /\ InitWorker

\* lines 517-535: the arguments are parsed, the agent is made and
\* collect_articles is entered, or argparse ends the process
ParseArgs ==
    /\ mpc = "start"
    /\ IF parse_cli_args(argv) = None
       THEN /\ mpc' = "exit2"
            /\ UNCHANGED <<configVars, pc>>
       ELSE LET args == parse_cli_args(argv)[1]
            IN  /\ mpc' = "collect"
                /\ limit' = args.limit
                /\ min_length' = args.min_length
                /\ summary_sentences' = args.summary_sentences
                /\ max_workers' = Max(1, args.max_workers)
                /\ pc' = "read"
    /\ UNCHANGED <<argv, parsed, feed_entries, filtered_entries, futures, yielded,
                   articles, admitted, fetches, result, pairVars, sumVars, workerVars>>

\* lines 537-542: the articles are printed and main returns 0
MainReturn ==
    /\ mpc = "collect"
    /\ pc = "done"
    /\ mpc' = "exit0"
    /\ UNCHANGED <<argv, collectorVars, pairVars, sumVars, workerVars>>

NextMain ==
    \/ ParseArgs
    \/ Next
    \/ MainReturn

SpecMain == InitArgs /\ [][NextMain]_vars

----------------------------------------------------------------------------
(* One call of _build_article, followed from its arguments to its return *)

\* a paragraph of LongWords words, longer than ShortenWidth characters
LongBody == Join([i \in 1..LongWords |-> [j \in 1..LongWordLen |-> "x"]], <<" ">>)

WorkerResponses ==
    Responses \cup {[ok |-> TRUE, page |-> <<LongBody>>]}

InitBuild ==
    /\ \E n \in 0..SummarySentencesArg : InitCollector("idle", 0, 0, 1, n)
    /\ InitSummarizer("idle", <<>>, 1)
    /\ InitMain
    /\ wpc = "call"
    /\ wentry \in {EntryDict(e, 1) : e \in EntryPool}
    /\ wresponse \in WorkerResponses
    /\ warticle = None

\* lines 363-392
BuildArticle ==
    /\ wpc = "call"
    /\ warticle' = build_article(wentry, wresponse, summary_sentences)
    /\ wpc' = "return"
    /\ UNCHANGED <<wentry, wresponse, collectorVars, pairVars, sumVars, mainVars>>

NextBuild == BuildArticle

SpecBuild == InitBuild /\ [][NextBuild]_vars

----------------------------------------------------------------------------
(* A second run of lines 282-296 over the same futures, all of them          *)
(* finished before its as_completed starts, which then yields them in any    *)
(* order.                                                                    *)

Collect2(i) ==
    /\ pc = "done"
    /\ pc2 = "collect"
    /\ i \in (1..Len(futures)) \ yielded2
    /\ yielded2' = yielded2 \cup {i}
    /\ articles2' = Admit(articles2, futures[i].result, min_length)
    /\ admitted2' = IF articles2' = articles2 THEN admitted2 ELSE Append(admitted2, i)
    /\ pc2' = IF Breaks(articles2, futures[i].result, min_length, limit)
              THEN "shutdown" ELSE "collect"
    /\ UNCHANGED <<collectorVars, result2, sumVars, mainVars, workerVars>>

LoopEnd2 ==
    /\ pc = "done"
    /\ pc2 = "collect"
    /\ yielded2 = 1..Len(futures)
    /\ pc2' = "shutdown"
    /\ UNCHANGED <<collectorVars, yielded2, articles2, admitted2, result2, sumVars,
                   mainVars, workerVars>>

Return2 ==
    /\ pc2 = "shutdown"
    /\ articles2' = SortArticles(articles2)
    /\ result2' = Returned(articles2, limit)
    /\ pc2' = "done"
    /\ UNCHANGED <<collectorVars, yielded2, admitted2, sumVars, mainVars, workerVars>>

NextPair ==
    \/ Next
    \/ \E i \in 1..Len(futures) : Collect2(i)
    \/ LoopEnd2
    \/ Return2

SpecPair == Init /\ [][NextPair]_vars

----------------------------------------------------------------------------
(* A call of summarize_text *)

\* The texts are made of these pieces: words with and without a full stop,
\* capitalized or not ("a" is a stop word, "x" and "y" are not), a full stop
\* alone, and a line break.
TextPieces ==
    { <<"X", ".", " ">>, <<"Y", ".", " ">>, <<"A", ".", " ">>,
      <<"X", " ">>, <<"x", " ">>, <<"a", " ">>,
      <<".", " ">>, <<"\n">> }

Texts == {Flatten(ps) : ps \in SeqsUpTo(TextPieces, MaxTextLen)}

InitSum ==
    /\ InitCollector("read", 0, 0, 1, SummarySentencesArg)
    /\ \E txt \in Texts, n \in 1..MaxN : InitSummarizer("call", txt, n)
    /\ InitMain
    /\ InitWorker

Summarize ==
    /\ spc = "call"
    /\ chosen' = SummarySentences(text, max_sentences)
    /\ summary' = summarize_text(text, max_sentences)
    /\ spc' = "return"
    /\ UNCHANGED <<text, max_sentences, collectorVars, pairVars, mainVars, workerVars>>

NextSum == Summarize

SpecSum == InitSum /\ [][NextSum]_vars

----------------------------------------------------------------------------
(* Properties of summarize_text, checked under SpecSum *)

\* a can be read off b from left to right, skipping elements of b
RECURSIVE IsSubsequence(_, _)
IsSubsequence(a, b) ==
    IF a = <<>> THEN TRUE
    ELSE IF b = <<>> THEN FALSE
    ELSE IF Head(a) = Head(b) THEN IsSubsequence(Tail(a), Tail(b))
    ELSE IsSubsequence(a, Tail(b))

\* C8: summarize_text returns at most N sentences, each a sentence of the
\* split input, in the relative order of their occurrences in the input,
\* also when a sentence occurs more than once.
C8_OrderOfOccurrence ==
    spc = "return" =>
        /\ Len(chosen) <= max_sentences
        /\ \A i \in 1..Len(chosen) : chosen[i] \in Range(split_into_sentences(text))
        /\ IsSubsequence(chosen, split_into_sentences(text))

\* C9: a text of at most N sentences comes back whole: every sentence,
\* unchanged and in order, joined by single spaces.
C9_ShortTextReturnedWhole ==
    (spc = "return" /\ Len(split_into_sentences(text)) <= max_sentences) =>
        /\ chosen = split_into_sentences(text)
        /\ summary = Join(split_into_sentences(text), <<" ">>)

\* C9 witness: a text of two or more sentences, no more than N, was summarized.
C9_Witness ==
    /\ spc = "return"
    /\ Len(split_into_sentences(text)) >= 2
    /\ Len(split_into_sentences(text)) <= max_sentences
    /\ Len(summary) > 0

\* the distinct non-stop words of a text
NonStopWords(txt) ==
    LET sentences == split_into_sentences(txt)
    IN  {t \in UNION {Range(tokenize(sentences[i])) : i \in 1..Len(sentences)} :
            t \notin STOP_WORDS}

\* C10 as stated: with fewer than 2 distinct non-stop words (none or one),
\* the first N sentences are returned verbatim, in order.
C10_FewerThanTwoWords ==
    (spc = "return" /\ Cardinality(NonStopWords(text)) < 2) =>
        chosen = Prefix(split_into_sentences(text), max_sentences)

\* C10 amended: with no non-stop word at all, the first N sentences are
\* returned verbatim, in order.
C10_NoNonStopWord ==
    (spc = "return" /\ NonStopWords(text) = {}) =>
        /\ chosen = Prefix(split_into_sentences(text), max_sentences)
        /\ summary = Join(Prefix(split_into_sentences(text), max_sentences), <<" ">>)

\* C10 witness: a text of more than N sentences, all of whose words are stop
\* words, was summarized.
C10_Witness ==
    /\ spc = "return"
    /\ NonStopWords(text) = {}
    /\ Len(split_into_sentences(text)) > max_sentences
    /\ \E i \in 1..Len(chosen) : tokenize(chosen[i]) # <<>>

----------------------------------------------------------------------------
(* Properties of collect_articles, checked under Spec and SpecPair *)

\* the Article that future i holds
ArticleOf(i) == futures[i].result[1]

\* the futures whose fetch failed: the entry has a link, and no Article came
FetchFailed == {i \in Finished : filtered_entries[i].link # "" /\ futures[i].result = None}

\* the futures that hold an Article whose body meets min_length
Qualifying ==
    {i \in Finished : futures[i].result # None
                      /\ Len(ArticleOf(i).full_text) >= min_length}

\* C1: at every point of a run the accumulator and the returned list hold at
\* most limit Articles, none with a body shorter than min_length.
C1_WithinLimitAndMinLength ==
    /\ Len(articles) <= limit
    /\ Len(result) <= limit
    /\ \A i \in 1..Len(articles) : Len(articles[i].full_text) >= min_length
    /\ \A i \in 1..Len(result) : Len(result[i].full_text) >= min_length

\* C2 as stated: two runs that admit the same Articles return the same
\* sequence, whatever the timestamps.
C2_SameArticlesSameSequence ==
    (pc = "done" /\ pc2 = "done" /\ Range(admitted) = Range(admitted2)) =>
        result = result2

\* no two of the admitted Articles have the same sort key
DistinctKeys(adm) ==
    \A i, j \in Range(adm) : i # j => SortKey(ArticleOf(i)) # SortKey(ArticleOf(j))

\* C2 amended: two runs that admit the same Articles return the same
\* sequence when no two of these Articles have the same sort key (the same
\* instant, an absent timestamp counting as the epoch).
C2_DistinctKeysSameSequence ==
    (/\ pc = "done" /\ pc2 = "done"
     /\ Range(admitted) = Range(admitted2)
     /\ DistinctKeys(admitted)) =>
        result = result2

\* C2 witness: two runs admitted the same two Articles in different orders
\* and returned them both.
C2_Witness ==
    /\ pc = "done" /\ pc2 = "done"
    /\ Range(admitted) = Range(admitted2)
    /\ admitted # admitted2
    /\ DistinctKeys(admitted)
    /\ Len(result) >= 2
    /\ result = result2

Absent(a) == a.published_at = None

\* the elements of as whose sort key is k, in their order
WithKey(as, k) == SelectSeq(as, LAMBDA a : SortKey(a) = k)

\* C3: the final sort orders the accumulator by timestamp descending, keeps
\* the pre-sort order of Articles with equal keys, and puts every Article
\* without a timestamp behind every Article with one.
C3_SortedStableAbsentLast ==
    [][(pc = "shutdown" /\ pc' = "done") =>
         /\ \A i, j \in 1..Len(articles') :
               (i < j /\ ~Absent(articles'[i]) /\ ~Absent(articles'[j])) =>
                   Instant(articles'[i].published_at[1])
                     >= Instant(articles'[j].published_at[1])
         /\ \A k \in {SortKey(articles[i]) : i \in 1..Len(articles)} :
               WithKey(articles', k) = WithKey(articles, k)
         /\ \A i, j \in 1..Len(articles') :
               (Absent(articles'[i]) /\ ~Absent(articles'[j])) => j < i]_vars

\* C4: every returned Article has a non-empty body.
C4_BodyNeverEmpty ==
    \A i \in 1..Len(result) : result[i].full_text # <<>>

\* C5: no two returned Articles share a link.
C5_LinksUnique ==
    \A i, j \in 1..Len(result) : i # j => result[i].link # result[j].link

\* C6: a failed fetch drops only its own entry.  The run goes on to its end,
\* no Article comes from the failed entry, and the entries whose fetch
\* succeeded with a body of min_length or more are returned, as many as the
\* limit allows.
C6_FailedFetchDropsOnlyItsEntry ==
    /\ (pc # "done") => ENABLED Next
    /\ Range(admitted) \cap FetchFailed = {}
    /\ (pc = "done") =>
          /\ Len(result) = Min(limit, Cardinality(Qualifying))
          /\ \A i \in 1..Len(result) : \E q \in Qualifying : result[i] = ArticleOf(q)
          /\ (Cardinality(Qualifying) <= limit) =>
                \A q \in Qualifying : \E i \in 1..Len(result) : result[i] = ArticleOf(q)

\* C6 witness: of two fetches one failed, and the other entry was returned.
C6_Witness ==
    /\ pc = "done"
    /\ FetchFailed # {}
    /\ Len(futures) >= 2
    /\ Len(result) >= 1

----------------------------------------------------------------------------
(* Properties of the Feed Reader, checked under SpecFeed *)

\* the entries of feed_entries that came from source s, in their order
FromSource(s) == SelectSeq(feed_entries, LAMBDA e : e.source = s)

\* C7 as stated: a source that is unreadable or malformed contributes no
\* entry, and the entries of every other source are produced.
C7_BadSourceSkippedEntirely ==
    \A s \in 1..Len(parsed) :
        IF parsed[s].raised \/ parsed[s].bozo
        THEN FromSource(s) = <<>>
        ELSE Len(FromSource(s)) = Len(parsed[s].entries)

\* C7 amended: a source for which feedparser raises contributes no entry; a
\* source feedparser flags as malformed is only logged and contributes the
\* entries feedparser got from it, as every readable source does, in feed
\* order; and the reader goes on to the next source in every case.
C7_RaisingSourceSkipped ==
    /\ \A s \in 1..Len(parsed) :
          /\ parsed[s].raised => FromSource(s) = <<>>
          /\ ~parsed[s].raised =>
                /\ Len(FromSource(s)) = Len(parsed[s].entries)
                /\ \A i \in 1..Len(FromSource(s)) :
                      /\ FromSource(s)[i].title = parsed[s].entries[i].title
                      /\ FromSource(s)[i].link = parsed[s].entries[i].link
    /\ (pc = "read" /\ Len(parsed) < NumSources) => ENABLED ReadSource
    /\ (pc # "read") => Len(parsed) = NumSources

\* C7 witness: the first source raised, the second was flagged as malformed
\* and still gave an entry.
C7_Witness ==
    /\ pc = "submit"
    /\ parsed[1].raised
    /\ parsed[2].bozo
    /\ Len(FromSource(2)) >= 1

\* keyword kw occurs in s at some position, letter case set aside
OccursIn(kw, s) ==
    \E i \in 1..(Len(s) - Len(kw) + 1) :
        \A j \in 1..Len(kw) : LowerChar(s[i + j - 1]) = LowerChar(kw[j])

\* the three entries of the filter scenario: two with "ai" in the title, one
\* with no keyword in title or snippet
ScenarioEntries ==
    << [title |-> <<"A", "I">>, link |-> "u1", summary |-> <<"x", "a">>,
        published |-> None, source |-> 1],
       [title |-> <<"x", "y">>, link |-> "u2", summary |-> <<"x">>,
        published |-> None, source |-> 1],
       [title |-> <<"x", "a", "i", "x">>, link |-> "u3", summary |-> <<>>,
        published |-> None, source |-> 1] >>

\* C11 as stated: an entry passes the filter exactly when the lower-cased
\* concatenation of its title and snippet contains a keyword.
C11_ConcatenationContainsKeyword ==
    (pc # "read") =>
        filtered_entries =
            SelectSeq(feed_entries,
                      LAMBDA e : \E kw \in KeywordArgs : OccursIn(kw, e.title \o e.summary))

\* C11 amended: an entry passes the filter exactly when the lower-cased
\* title and snippet, joined by one space, contain a lower-cased keyword as
\* a substring; the passing entries keep their order; and of three entries
\* of which two have "ai" in the title and the third has no keyword, the
\* two are admitted.
C11_JoinedBySpaceContainsKeyword ==
    /\ (pc # "read") =>
          filtered_entries =
              SelectSeq(feed_entries,
                        LAMBDA e : \E kw \in KeywordArgs :
                                      OccursIn(kw, e.title \o <<" ">> \o e.summary))
    /\ FilterEntries(ScenarioEntries) = <<ScenarioEntries[1], ScenarioEntries[3]>>

\* C11 witness: of two entries read, the one whose snippet alone holds the
\* keyword, in another letter case, passed, and the one whose title ends
\* and whose snippet begins with a half of the keyword did not.
C11_Witness ==
    /\ pc = "submit"
    /\ Len(feed_entries) = 2
    /\ Len(filtered_entries) = 1
    /\ filtered_entries[1].title = <<"x", "y">>
    /\ \E i \in 1..2 : feed_entries[i].title = <<"x", "a">>

----------------------------------------------------------------------------
(* Properties of the worker pool and the collecting loop, checked under Spec *)

\* C12: at every moment the number of entries whose fetch is in progress is
\* at most max_workers, which is at least 1 whatever value was given.
C12_FetchesWithinWorkerCount ==
    /\ max_workers >= 1
    /\ Cardinality(Fetching) <= max_workers

\* C12 witness: with one worker, a fetch is in progress and the call for
\* another entry with a link waits in the queue.
C12_Witness ==
    /\ max_workers = 1
    /\ Cardinality(Fetching) = 1
    /\ \E i \in Queued : filtered_entries[i].link # ""

\* C13: once the accumulator holds limit Articles, no further result is
\* admitted, and a fetch that has started is not cancelled: its call stays
\* running until it returns, which it can.
C13_NoAdmissionAfterLimit ==
    [][/\ (Len(articles) >= limit) =>
             /\ admitted' = admitted
             /\ Len(articles') = Len(articles)
       /\ \A i \in Fetching :
             /\ futures'[i].state \in {"running", "done"}
             /\ ENABLED WorkerFinish(i)]_vars

\* C15: while fewer than limit Articles are accepted, the loop accepts a
\* completed Article whose stored body has exactly min_length characters
\* and rejects one whose stored body has min_length - 1 characters.
C15_MinLengthBoundary ==
    [][\A i \in 1..Len(futures) :
          (/\ pc = "collect"
           /\ i \notin yielded
           /\ yielded' = yielded \cup {i}
           /\ futures[i].result # None
           /\ Len(articles) < limit) =>
              /\ (Len(ArticleOf(i).full_text) = min_length) =>
                    articles' = Append(articles, ArticleOf(i))
              /\ (Len(ArticleOf(i).full_text) = min_length - 1) =>
                    articles' = articles]_vars

\* C15 witness: with min_length 2, the Article with a body of 2 characters
\* was accepted and the one whose body, a snippet of 2 characters, is
\* stored stripped to 1 character was rejected.
C15_Witness ==
    /\ min_length = 2
    /\ Len(futures) = 2
    /\ yielded = {1, 2}
    /\ \E i, j \in 1..2 :
          /\ futures[i].result # None /\ futures[j].result # None
          /\ Len(ArticleOf(i).full_text) = 2
          /\ Len(ArticleOf(j).full_text) = 1
          /\ Len(filtered_entries[j].summary) = 2
          /\ admitted = <<i>>

----------------------------------------------------------------------------
(* Properties of main, checked under SpecMain *)

\* the flag values the documentation of the flags rules out
InvalidFlags(a) ==
    \/ ~a.limit.numeric \/ a.limit.value < 0
    \/ ~a.min_length.numeric \/ a.min_length.value < 0
    \/ ~a.summary_sentences.numeric \/ a.summary_sentences.value < 1
    \/ ~a.max_workers.numeric \/ a.max_workers.value < 1
    \/ a.output \notin OutputChoices

\* C14: with an invalid flag value main fails at startup: it does not enter
\* the collection, no feed is read and no fetch is issued.
C14_InvalidFlagFailsAtStartup ==
    InvalidFlags(argv) =>
        /\ mpc \in {"start", "exit2"}
        /\ parsed = <<>>
        /\ fetches = <<>>

----------------------------------------------------------------------------
(* Candidates of the summary, checked under SpecSum *)

\* the text has more than N sentences and a non-stop word: summarize_text
\* ranks its sentences by score
Ranked ==
    /\ spc = "return"
    /\ Len(split_into_sentences(text)) > max_sentences
    /\ NonStopWords(text) # {}

\* no sentence left out has a strictly higher score than a selected one
NoBetterLeftOut ==
    LET sentences == split_into_sentences(text)
        freq == WordFreq(sentences)
    IN  \A u \in Range(sentences) \ Range(chosen) :
            \A c \in Range(chosen) : Score(u, freq) <= Score(c, freq)

\* C16 as stated: every sentence is a candidate, also one with no tokens
\* and one with stop words only; exactly N sentences are returned, and no
\* sentence left out has a strictly higher score than a selected one.
C16_EverySentenceCandidate ==
    Ranked =>
        LET sentences == split_into_sentences(text)
        IN  /\ Range(sentences)
                  \subseteq Range(Items(SentenceScores(sentences, WordFreq(sentences))))
            /\ Len(chosen) = max_sentences
            /\ NoBetterLeftOut

\* C16 amended: the candidates are the sentences that have a token, also
\* those with stop words only; a sentence with no token is never selected;
\* exactly N sentences are returned, and no sentence left out has a
\* strictly higher score than a selected one.
C16_SentencesWithTokensCandidates ==
    Ranked =>
        LET sentences == split_into_sentences(text)
        IN  /\ Range(Items(SentenceScores(sentences, WordFreq(sentences))))
                  = {s \in Range(sentences) : tokenize(s) # <<>>}
            /\ \A i \in 1..Len(chosen) : tokenize(chosen[i]) # <<>>
            /\ Len(chosen) = max_sentences
            /\ NoBetterLeftOut

\* C16 witness: of four sentences the first has no token and another has a
\* stop word only; three are returned, the one with the stop word among
\* them.
C16_Witness ==
    /\ Ranked
    /\ Len(split_into_sentences(text)) = 4
    /\ tokenize(split_into_sentences(text)[1]) = <<>>
    /\ Len(chosen) = 3
    /\ \E i \in 1..3 : /\ tokenize(chosen[i]) # <<>>
                        /\ Range(tokenize(chosen[i])) \subseteq STOP_WORDS

----------------------------------------------------------------------------
(* Properties of _build_article, checked under SpecBuild *)

\* the call got a response and made an Article
Built == wpc = "return" /\ warticle # None

\* the body the worker resolves: the extracted text, or the snippet when
\* the extraction is empty
Resolved ==
    IF extract_text(wresponse.page) = <<>>
    THEN wentry.summary
    ELSE extract_text(wresponse.page)

\* the summary of the Article is the summarizer's output for the resolved
\* body, or the shortened body when that output is empty
SummaryOrShortened ==
    IF summarize_text(Resolved, summary_sentences) = <<>>
    THEN warticle[1].summary = Shorten(Resolved, ShortenWidth)
    ELSE warticle[1].summary = summarize_text(Resolved, summary_sentences)

\* C17 as stated: the body of the Article is the snippet when the
\* extraction is empty and the extracted text otherwise, and its summary is
\* the summarizer's output or, when that is empty, the shortened body.
C17_BodyIsSnippetOrExtracted ==
    Built => (warticle[1].full_text = Resolved /\ SummaryOrShortened)

\* C17 amended: the body of the Article is the snippet, with the white space
\* at its ends removed, when the extraction is empty and the extracted text
\* otherwise; its summary is the summarizer's output or, when that is
\* empty, the body with runs of white space collapsed, cut at a word to
\* ShortenWidth characters with the marker when it is longer.
C17_BodyIsStrippedSnippetOrExtracted ==
    Built =>
        /\ warticle[1].full_text = Strip(Resolved)
        /\ SummaryOrShortened
        /\ (summarize_text(Resolved, summary_sentences) = <<>>) =>
              /\ Len(warticle[1].summary) <= ShortenWidth
              /\ (Len(CollapseSpace(Strip(Resolved))) > ShortenWidth) =>
                    warticle[1].summary[Len(warticle[1].summary)] = Placeholder[1]

\* C17 witness: the page gave no text and the summarizer gave no sentence;
\* the body is the snippet without its leading space, and so is the summary.
C17_Witness ==
    /\ Built
    /\ extract_text(wresponse.page) = <<>>
    /\ wentry.summary = <<" ", "x">>
    /\ summarize_text(Resolved, summary_sentences) = <<>>
    /\ warticle[1].full_text = <<"x">>
    /\ warticle[1].summary = <<"x">>

----------------------------------------------------------------------------
(* Properties of the fetches of a run, checked under Spec *)

\* the entry has a keyword in its title and snippet
HasKeyword(e) ==
    \E kw \in KeywordArgs : OccursIn(kw, e.title \o <<" ">> \o e.summary)

\* C18: no fetch is issued for an entry that fails the keyword filter, and
\* no fetch starts before every source is read and the entries are
\* filtered.
C18_FetchOnlyAfterFilter ==
    /\ \A k \in 1..Len(fetches) :
          /\ fetches[k] \in 1..Len(filtered_entries)
          /\ HasKeyword(filtered_entries[fetches[k]])
    /\ (fetches # <<>> \/ Fetching # {}) =>
          /\ pc # "read"
          /\ Len(parsed) = NumSources
          /\ \A s \in 1..NumSources :
                ~parsed[s].raised => Len(FromSource(s)) = Len(parsed[s].entries)
          /\ filtered_entries = SelectSeq(feed_entries, HasKeyword)

\* C18 witness: two entries were read, one fails the filter, and the fetch
\* for the other has been issued.
C18_Witness ==
    /\ Len(feed_entries) = 2
    /\ \E i \in 1..2 : ~HasKeyword(feed_entries[i])
    /\ fetches = <<1>>

\* C19 as stated: the fetch for each keyword-matching entry is attempted
\* exactly once: never more than once, and once by the end of the run.
C19_EveryEntryFetchedOnce ==
    /\ \A i \in 1..Len(futures) : Count(fetches, i) <= 1
    /\ (pc = "done") =>
          \A i \in 1..Len(filtered_entries) : Count(fetches, i) = 1

\* C19 amended: the fetch for each keyword-matching entry that has a link is
\* attempted exactly once, never more than once and once by the end of the
\* run, also after a failure and after the limit is reached; an entry
\* without a link is never fetched.
C19_EveryLinkedEntryFetchedOnce ==
    /\ \A i \in 1..Len(futures) : Count(fetches, i) <= 1
    /\ \A k \in 1..Len(fetches) : filtered_entries[fetches[k]].link # ""
    /\ (pc = "done") =>
          \A i \in 1..Len(filtered_entries) :
              filtered_entries[i].link # "" => Count(fetches, i) = 1

\* C19 witness: at the end of a run the fetch of one entry has failed and
\* was issued once, and the other entry, without a link, was not fetched.
C19_Witness ==
    /\ pc = "done"
    /\ Len(futures) = 2
    /\ FetchFailed # {}
    /\ \E i \in 1..2 : filtered_entries[i].link = ""
    /\ Len(fetches) = 1

----------------------------------------------------------------------------
(* Properties of _parse_published, checked under SpecFeed *)

\* the date fields of a raw entry in the order they are tried
DateFields(raw) == <<raw.published, raw.updated, raw.created>>

\* field k of the raw entry is present and parses
Parses(raw, k) == DateFields(raw)[k] # None /\ DateFields(raw)[k][1].valid

\* the timestamp that field k denotes, a value without zone read as UTC
Timestamp(raw, k) ==
    LET v == DateFields(raw)[k][1]
    IN  [wall |-> v.wall, offset |-> IF v.offset = None THEN 0 ELSE v.offset[1]]

\* C20: the publication time of an entry is the value of the first of
\* published, updated, created that is present and parses, a value without
\* zone taken as UTC; it is absent when none parses.
C20_FirstFieldThatParses ==
    \A s \in 1..Len(parsed) :
        ~parsed[s].raised =>
            \A i \in 1..Len(parsed[s].entries) :
                LET raw == parsed[s].entries[i]
                    e == FromSource(s)[i]
                IN  /\ i <= Len(FromSource(s))
                    /\ \A k \in 1..3 :
                          (Parses(raw, k) /\ \A j \in 1..(k - 1) : ~Parses(raw, j)) =>
                              e.published = Some(Timestamp(raw, k))
                    /\ (\A k \in 1..3 : ~Parses(raw, k)) => e.published = None

\* C20 witness: one entry read has a published value that does not parse
\* and an updated value without zone, which became its time, in UTC; the
\* other has both published and updated, and published became its time.
C20_Witness ==
    /\ Len(parsed) >= 1
    /\ ~parsed[1].raised
    /\ Len(parsed[1].entries) = 2
    /\ Len(feed_entries) = 2
    /\ LET raw == parsed[1].entries IN
          /\ raw[1].published # None /\ ~raw[1].published[1].valid
          /\ raw[1].updated # None /\ raw[1].updated[1].offset = None
          /\ feed_entries[1].published = Some([wall |-> raw[1].updated[1].wall, offset |-> 0])
          /\ Parses(raw[2], 1) /\ Parses(raw[2], 2)
          /\ feed_entries[2].published = Some(Timestamp(raw[2], 1))
          /\ feed_entries[2].published # Some(Timestamp(raw[2], 2))

----------------------------------------------------------------------------
(* Termination of collect_articles, checked under SpecLive *)

\* every keyword-matching entry was submitted and its call has returned
AllProcessed ==
    /\ Len(futures) = Len(filtered_entries)
    /\ Finished = 1..Len(futures)

\* the loop was left with the limit reached while a call was still queued
LimitReachedWithQueued ==
    /\ pc = "shutdown"
    /\ limit >= 1
    /\ Len(articles) >= limit
    /\ Queued # {}

\* C21: collect_articles terminates; it returns only after every submitted
\* call has finished; and a call still queued when the limit is reached is
\* run to its end before the return.
C21_TerminatesAfterAllWorkers ==
    /\ <>(pc = "done")
    /\ [](pc = "done" => AllProcessed)
    /\ (LimitReachedWithQueued ~> (pc = "done" /\ AllProcessed))

\* C21 witness: the limit is reached and the loop is left while the call
\* for another entry has not started.
C21_Witness ==
    /\ LimitReachedWithQueued
    /\ yielded # 1..Len(futures)

----------------------------------------------------------------------------
(* An entry without link, checked under Spec *)

\* the futures of the keyword-matching entries whose link is empty
NoLink == {i \in 1..Len(futures) : filtered_entries[i].link = ""}

\* C22: a keyword-matching entry with an empty link gives no Article and
\* causes no request; it is not admitted, so it does not count towards the
\* limit, and the turn of the loop that takes its result leaves the
\* accumulator as it is and does not end the loop.
C22_EmptyLinkDropped ==
    /\ [](\A i \in NoLink :
            /\ futures[i].result = None
            /\ Count(fetches, i) = 0
            /\ Count(admitted, i) = 0
            /\ \A k \in 1..Len(result) : result[k].link # "")
    /\ [][\A i \in NoLink :
            (pc = "collect" /\ i \notin yielded /\ yielded' = yielded \cup {i}) =>
                /\ articles' = articles
                /\ pc' = "collect"
                /\ futures' = futures]_vars

\* C22 witness: with limit 1, the result of an entry without link was taken
\* first, and the Article of the other entry was admitted after it and
\* returned.
C22_Witness ==
    /\ pc = "done"
    /\ limit = 1
    /\ Len(futures) = 2
    /\ \E i \in NoLink : yielded = {1, 2} /\ admitted = <<3 - i>>
    /\ Len(result) = 1

====
